---- MODULE Spec2Model ----
(***************************************************************************)
(* Model of EV_charging.py: a Streamlit form that loads three artifacts    *)
(* through st.cache_resource, reads ten sliders, and on a button press     *)
(* runs the classifier and the rule function detect_abuse_actions and      *)
(* renders the outcome.                                                    *)
(*                                                                         *)
(* Numeric encoding.  Sliders with a fractional step are kept as integers  *)
(* in units of one hundredth for c_rate (step 0.05) and one tenth for      *)
(* energy_stress and charging_duration (step 0.1); the thresholds 0.8, 3   *)
(* and 6 of the source are therefore written 80, 30 and 60.  Probabilities *)
(* are kept in hundredths, as the display formats them (:.2f).             *)
(***************************************************************************)
EXTENDS Integers, Sequences, FiniteSets, TLC

VARIABLES
    sliders,     \* session widget state: feature name -> current slider value
    cache,       \* st.cache_resource entry of load_artifacts: <<>> or <<artifacts>>
    loadCalls,   \* number of executions of the body of load_artifacts
    loadOk,      \* number of those executions that returned
    firstLoaded, \* history: what the first successful load returned (<<>> before)
    run,         \* what the latest run of the script did and rendered
    args,        \* arguments of a direct call of detect_abuse_actions
    result,      \* the list that call returned
    dpc          \* position of the direct call: "call" or "returned"

vars == <<sliders, cache, loadCalls, loadOk, firstLoaded, run, args, result, dpc>>

appVars == <<sliders, cache, loadCalls, loadOk, firstLoaded, run>>
callVars == <<args, result, dpc>>

\* Cap on the number of executions of load_artifacts' body in one process.
MaxLoads == 3

\* Number of adjacent transpositions of the expected order offered as
\* contents of features.pkl.
MaxSwap == 1

(***************************************************************************)
(* Rule function                                                           *)
(***************************************************************************)

\* The category names in the order of the checks.
Categories ==
    << "High Temperature Charging",
       "Fast Charging at High SoC",
       "Overcharging",
       "Overnight / Long Duration Charging",
       "High Power Charging on Low Capacity Battery",
       "High Energy Stress Charging",
       "Excessive C-Rate Charging",
       "Thermal Stress Due to Long Charging" >>

CategorySet == { Categories[i] : i \in 1..Len(Categories) }

\* actions.append(name) when the test holds, as each `if` of the function does
AppendIf(actions, test, name) == IF test THEN Append(actions, name) ELSE actions

\* A slip in one comparison: soc_end > 95 instead of soc_end >= 95.
detect_abuse_actions_strict(soc_end, soc_diff, charging_rate, c_rate, temperature, thermal_load, charging_duration, battery_capacity, energy_stress) ==
    LET a1 == AppendIf(<< >>, temperature > 45, "High Temperature Charging")
        a2 == AppendIf(a1, soc_end > 80 /\ charging_rate > 50, "Fast Charging at High SoC")
        a3 == AppendIf(a2, soc_end > 95, "Overcharging")
        a4 == AppendIf(a3, charging_duration > 60, "Overnight / Long Duration Charging")
        a5 == AppendIf(a4, charging_rate > battery_capacity, "High Power Charging on Low Capacity Battery")
        a6 == AppendIf(a5, energy_stress > 30, "High Energy Stress Charging")
        a7 == AppendIf(a6, c_rate > 80, "Excessive C-Rate Charging")
        a8 == AppendIf(a7, thermal_load > 300, "Thermal Stress Due to Long Charging")
    IN  a8

\* A slip in the order of two checks: Overcharging tested before Fast Charging.
detect_abuse_actions_reordered(soc_end, soc_diff, charging_rate, c_rate, temperature, thermal_load, charging_duration, battery_capacity, energy_stress) ==
    LET a1 == AppendIf(<< >>, temperature > 45, "High Temperature Charging")
        a2 == AppendIf(a1, soc_end >= 95, "Overcharging")
        a3 == AppendIf(a2, soc_end > 80 /\ charging_rate > 50, "Fast Charging at High SoC")
        a4 == AppendIf(a3, charging_duration > 60, "Overnight / Long Duration Charging")
        a5 == AppendIf(a4, charging_rate > battery_capacity, "High Power Charging on Low Capacity Battery")
        a6 == AppendIf(a5, energy_stress > 30, "High Energy Stress Charging")
        a7 == AppendIf(a6, c_rate > 80, "Excessive C-Rate Charging")
        a8 == AppendIf(a7, thermal_load > 300, "Thermal Stress Due to Long Charging")
    IN  a8

\* A slip in one operand: the fast-charging check reads battery_capacity
\* where it should read charging_rate.
detect_abuse_actions_wrongvar(soc_end, soc_diff, charging_rate, c_rate, temperature, thermal_load, charging_duration, battery_capacity, energy_stress) ==
    LET a1 == AppendIf(<< >>, temperature > 45, "High Temperature Charging")
        a2 == AppendIf(a1, soc_end > 80 /\ battery_capacity > 50, "Fast Charging at High SoC")
        a3 == AppendIf(a2, soc_end >= 95, "Overcharging")
        a4 == AppendIf(a3, charging_duration > 60, "Overnight / Long Duration Charging")
        a5 == AppendIf(a4, charging_rate > battery_capacity, "High Power Charging on Low Capacity Battery")
        a6 == AppendIf(a5, energy_stress > 30, "High Energy Stress Charging")
        a7 == AppendIf(a6, c_rate > 80, "Excessive C-Rate Charging")
        a8 == AppendIf(a7, thermal_load > 300, "Thermal Stress Due to Long Charging")
    IN  a8

\* A slip in one comparison: the capacity check reads < instead of >.
detect_abuse_actions_flipped(soc_end, soc_diff, charging_rate, c_rate, temperature, thermal_load, charging_duration, battery_capacity, energy_stress) ==
    LET a1 == AppendIf(<< >>, temperature > 45, "High Temperature Charging")
        a2 == AppendIf(a1, soc_end > 80 /\ charging_rate > 50, "Fast Charging at High SoC")
        a3 == AppendIf(a2, soc_end >= 95, "Overcharging")
        a4 == AppendIf(a3, charging_duration > 60, "Overnight / Long Duration Charging")
        a5 == AppendIf(a4, charging_rate < battery_capacity, "High Power Charging on Low Capacity Battery")
        a6 == AppendIf(a5, energy_stress > 30, "High Energy Stress Charging")
        a7 == AppendIf(a6, c_rate > 80, "Excessive C-Rate Charging")
        a8 == AppendIf(a7, thermal_load > 300, "Thermal Stress Due to Long Charging")
    IN  a8

detect_abuse_actions(soc_end, soc_diff, charging_rate, c_rate, temperature, thermal_load, charging_duration, battery_capacity, energy_stress) ==
    LET a1 == AppendIf(<< >>, temperature > 45, "High Temperature Charging")
        a2 == AppendIf(a1, soc_end > 80 /\ charging_rate > 50, "Fast Charging at High SoC")
        a3 == AppendIf(a2, soc_end >= 95, "Overcharging")
        a4 == AppendIf(a3, charging_duration > 60, "Overnight / Long Duration Charging")
        a5 == AppendIf(a4, charging_rate > battery_capacity, "High Power Charging on Low Capacity Battery")
        a6 == AppendIf(a5, energy_stress > 30, "High Energy Stress Charging")
        a7 == AppendIf(a6, c_rate > 80, "Excessive C-Rate Charging")
        a8 == AppendIf(a7, thermal_load > 300, "Thermal Stress Due to Long Charging")
    IN  a8

\* The call as both call sites write it, from a record of named values.
Detect(v) ==
    detect_abuse_actions(v.soc_end, v.soc_diff, v.charging_rate, v.c_rate,
                         v.temperature, v.thermal_load, v.charging_duration,
                         v.battery_capacity, v.energy_stress)

Member(name, list) == \E i \in 1..Len(list) : list[i] = name


(***************************************************************************)
(* Suggestion table and output display                                     *)
(***************************************************************************)

\* A slip in one key: "Over charging" does not match the name the rule
\* function appends.
ACTION_SUGGESTIONS_misspelt ==
    ( "High Temperature Charging" :> "Pause charging until the battery temperature drops below 45C." ) @@
    ( "Fast Charging at High SoC" :> "Switch to slow charging above 80% to reduce battery stress." ) @@
    ( "Over charging" :> "Avoid charging beyond 90% for daily usage." ) @@
    ( "Overnight / Long Duration Charging" :> "Unplug the charger once charging is complete." ) @@
    ( "High Power Charging on Low Capacity Battery" :> "Use a charger compatible with your battery capacity." ) @@
    ( "High Energy Stress Charging" :> "Reduce charging power to minimize energy stress." ) @@
    ( "Excessive C-Rate Charging" :> "Decrease the Voltage to improve long-term battery health." ) @@
    ( "Thermal Stress Due to Long Charging" :> "Avoid long continuous charging sessions at high temperature." )

ACTION_SUGGESTIONS ==
    ( "High Temperature Charging" :> "Pause charging until the battery temperature drops below 45C." ) @@
    ( "Fast Charging at High SoC" :> "Switch to slow charging above 80% to reduce battery stress." ) @@
    ( "Overcharging" :> "Avoid charging beyond 90% for daily usage." ) @@
    ( "Overnight / Long Duration Charging" :> "Unplug the charger once charging is complete." ) @@
    ( "High Power Charging on Low Capacity Battery" :> "Use a charger compatible with your battery capacity." ) @@
    ( "High Energy Stress Charging" :> "Reduce charging power to minimize energy stress." ) @@
    ( "Excessive C-Rate Charging" :> "Decrease the Voltage to improve long-term battery health." ) @@
    ( "Thermal Stress Due to Long Charging" :> "Avoid long continuous charging sessions at high temperature." )

\* The second loop of the display: one line per action that has an entry.
Suggestions(abuse_actions) ==
    LET kept == SelectSeq(abuse_actions, LAMBDA a : a \in DOMAIN ACTION_SUGGESTIONS)
    IN  [ i \in 1..Len(kept) |-> ACTION_SUGGESTIONS[kept[i]] ]

\* Nothing written below the form.
NoOutput ==
    [ verdict |-> << >>, actions |-> << >>, suggestions |-> << >>, generic |-> FALSE ]

\* A slip in the nesting: the category block sits outside the `if pred == 1`.
OutputDisplay_ungated(pred, prob, abuse_actions) ==
    [ verdict     |-> IF pred = 1 THEN << [ label |-> "ABUSIVE", confidence |-> prob ] >>
                                  ELSE << [ label |-> "NORMAL", confidence |-> 100 - prob ] >>,
      actions     |-> abuse_actions,
      suggestions |-> Suggestions(abuse_actions),
      generic     |-> pred = 1 /\ abuse_actions = << >> ]

\* What the block under the separator writes: the verdict with its
\* confidence, then, only when pred == 1, the actions and their suggestions,
\* or the generic warning when the list is empty.
OutputDisplay(pred, prob, abuse_actions) ==
    IF pred = 1
    THEN [ verdict     |-> << [ label |-> "ABUSIVE", confidence |-> prob ] >>,
           actions     |-> abuse_actions,
           suggestions |-> Suggestions(abuse_actions),
           generic     |-> abuse_actions = << >> ]
    ELSE [ verdict     |-> << [ label |-> "NORMAL", confidence |-> 100 - prob ] >>,
           actions     |-> << >>,
           suggestions |-> << >>,
           generic     |-> FALSE ]

(***************************************************************************)
(* Sliders and the feature vector                                          *)
(***************************************************************************)

\* The ten values in the order the row of input_df lists them.
FeatureOrder ==
    << "battery_capacity", "energy_consumed", "charging_duration", "charging_rate",
       "soc_end", "temperature", "soc_diff", "energy_stress", "c_rate", "thermal_load" >>

FeatureNames == { FeatureOrder[i] : i \in 1..Len(FeatureOrder) }

\* Default value of each slider.
SliderDefaults ==
    [ soc_end |-> 55, energy_stress |-> 10, c_rate |-> 60, charging_rate |-> 40,
      soc_diff |-> 30, battery_capacity |-> 80, energy_consumed |-> 20,
      temperature |-> 25, thermal_load |-> 150, charging_duration |-> 20 ]

\* Declared minimum and maximum of each slider.
SliderMin ==
    [ soc_end |-> 0, energy_stress |-> 0, c_rate |-> 0, charging_rate |-> 1,
      soc_diff |-> -100, battery_capacity |-> 20, energy_consumed |-> 0,
      temperature |-> -10, thermal_load |-> 0, charging_duration |-> 1 ]

SliderMax ==
    [ soc_end |-> 100, energy_stress |-> 50, c_rate |-> 200, charging_rate |-> 120,
      soc_diff |-> 130, battery_capacity |-> 200, energy_consumed |-> 150,
      temperature |-> 80, thermal_load |-> 500, charging_duration |-> 80 ]

\* The positions the user moves each slider to in the form.
SliderValues ==
    [ soc_end |-> {55, 81, 95}, energy_stress |-> {10, 31}, c_rate |-> {60, 85},
      charging_rate |-> {40, 120}, soc_diff |-> {30, -100},
      battery_capacity |-> {80, 200}, energy_consumed |-> {20, 0},
      temperature |-> {25, 46}, thermal_load |-> {150, 301},
      charging_duration |-> {20, 61} ]

\* The row of values the DataFrame is built from.
Row(v) ==
    << v.battery_capacity, v.energy_consumed, v.charging_duration, v.charging_rate,
       v.soc_end, v.temperature, v.soc_diff, v.energy_stress, v.c_rate, v.thermal_load >>

\* pd.DataFrame([row], columns=features): column i carries the label
\* features[i] and the value row[i].
input_df(v, features) ==
    [ i \in 1..Len(features) |-> << features[i], Row(v)[i] >> ]

Swap(s, i, j) ==
    [ k \in 1..Len(s) |-> IF k = i THEN s[j] ELSE IF k = j THEN s[i] ELSE s[k] ]

\* Contents features.pkl may have: the ten names in the row's order, or with
\* two neighbours exchanged.
FeatureLists ==
    { FeatureOrder } \cup { Swap(FeatureOrder, i, i + 1) : i \in 1..MaxSwap }

\* The classifier is opaque: any label, any positive-class probability.
Labels == {0, 1}
Probs == {20, 90}


(***************************************************************************)
(* Artifact loading                                                        *)
(***************************************************************************)

\* The body of load_artifacts, executed for the n-th time: the three
\* joblib.load calls in turn.  failAt = 0: all three return and the body
\* returns a fresh triple (id stands for the identity of the objects, the
\* feature list is what features.pkl holds); failAt = 1, 2, 3: that load
\* raises and nothing is returned.
load_artifacts(failAt, feats, n) ==
    IF failAt = 0 THEN << [ id |-> n, features |-> feats ] >> ELSE << >>

\* A decorator that does not keep the value: every run executes the body.
cache_resource_miss(c) == FALSE

\* @st.cache_resource: the call is answered from the cache once a value has
\* been stored; a call that raised stored nothing.
cache_resource(c) == c # << >>

\* An exception swallowed at the call site: the script carries on.
Raises_never(loaded) == FALSE

\* model, scaler, features = load_artifacts(): an exception raised by the
\* body propagates here and ends the run of the script.
Raises(loaded) == loaded = << >>

(***************************************************************************)
(* One run of the script                                                   *)
(***************************************************************************)

NoRun ==
    [ trigger      |-> "none",
      loadFailed   |-> FALSE,
      arts         |-> << >>,
      slidersShown |-> FALSE,
      inputs       |-> << >>,
      input_df     |-> << >>,
      pred         |-> << >>,
      predictCalls |-> 0,
      detectCalls  |-> 0,
      abuse_actions |-> << >>,
      out          |-> NoOutput ]

\* What the call load_artifacts() can evaluate to in this run: the cached
\* value, or else any outcome of executing the body.
LoadOutcomes ==
    IF cache_resource(cache)
    THEN { cache }
    ELSE { load_artifacts(failAt, feats, loadCalls + 1) : failAt \in 0..3, feats \in FeatureLists }

\* What model.predict and model.predict_proba can answer when they are called.
ClassifierOutcomes(called) ==
    IF called THEN Labels \X Probs ELSE { << 0, 0 >> }

\* A widget that keeps its state: it reports True in every run.
button_sticky(trigger) == TRUE

\* st.button: True only in the run that its click caused.
button(trigger) == trigger = "press"

\* The script from top to bottom in a run caused by trigger, with the
\* session's slider values sl.
ScriptRun(trigger, sl) ==
    \E loaded \in LoadOutcomes :
        LET hit      == cache_resource(cache)
            pressed  == button(trigger)
            raised   == Raises(loaded)
            features == IF loaded = << >> THEN FeatureOrder ELSE loaded[1].features
            analyse  == ~raised /\ pressed
            acts     == Detect(sl)
        IN  \E answer \in ClassifierOutcomes(analyse) :
            /\ hit \/ loadCalls < MaxLoads
            /\ sliders' = sl
            /\ loadCalls' = IF hit THEN loadCalls ELSE loadCalls + 1
            /\ loadOk' = IF ~hit /\ loaded # << >> THEN loadOk + 1 ELSE loadOk
            /\ cache' = IF hit THEN cache ELSE loaded
            /\ firstLoaded' = IF firstLoaded = << >> /\ ~hit THEN loaded ELSE firstLoaded
            /\ run' = [ trigger      |-> trigger,
                        loadFailed   |-> loaded = << >>,
                        arts         |-> IF raised THEN << >> ELSE loaded,
                        slidersShown |-> ~raised,
                        inputs       |-> IF raised THEN << >> ELSE << sl >>,
                        input_df     |-> IF analyse THEN << input_df(sl, features) >> ELSE << >>,
                        pred         |-> IF analyse THEN << answer[1] >> ELSE << >>,
                        predictCalls |-> IF analyse THEN 1 ELSE 0,
                        detectCalls  |-> IF analyse THEN 1 ELSE 0,
                        abuse_actions |-> IF analyse THEN acts ELSE << >>,
                        out          |-> IF analyse THEN OutputDisplay(answer[1], answer[2], acts)
                                                    ELSE NoOutput ]
            /\ UNCHANGED callVars

\* A browser connects: a new session, every slider at its default.
NewSession == ScriptRun("connect", SliderDefaults)

\* The user asks for a rerun of the script in the session.
Rerun ==
    /\ run.trigger # "none"
    /\ ScriptRun("rerun", sliders)

\* The user moves one slider.
MoveSlider ==
    /\ run.slidersShown
    /\ \E k \in FeatureNames : \E x \in SliderValues[k] \ { sliders[k] } :
           /\ SliderMin[k] <= x /\ x <= SliderMax[k]
           /\ ScriptRun("move", [ sliders EXCEPT ![k] = x ])

\* The user presses "Analyze Charging Behavior".
PressButton ==
    /\ run.slidersShown
    /\ ScriptRun("press", sliders)

\* The arguments of the direct call, without the unused energy_consumed.
DefaultArgs ==
    [ soc_end |-> 55, energy_stress |-> 10, c_rate |-> 60, charging_rate |-> 40,
      soc_diff |-> 30, battery_capacity |-> 80,
      temperature |-> 25, thermal_load |-> 150, charging_duration |-> 20 ]

Init ==
    /\ sliders = SliderDefaults
    /\ cache = << >>
    /\ loadCalls = 0
    /\ loadOk = 0
    /\ firstLoaded = << >>
    /\ run = NoRun
    /\ args = DefaultArgs
    /\ result = << >>
    /\ dpc = "idle"

Next == NewSession \/ Rerun \/ MoveSlider \/ PressButton

Spec == Init /\ [][Next]_vars

(***************************************************************************)
(* detect_abuse_actions called on its own                                  *)
(***************************************************************************)

\* Argument values of the direct call: each threshold, its neighbours and
\* the slider default.
CallValues ==
    [ soc_end |-> {55, 80, 81, 94, 95}, energy_stress |-> {10, 30, 31},
      c_rate |-> {60, 80, 85}, charging_rate |-> {40, 50, 51},
      soc_diff |-> {30, -100}, battery_capacity |-> {40, 80},
      temperature |-> {25, 45, 46}, thermal_load |-> {150, 300, 301},
      charging_duration |-> {20, 60, 61} ]

ArgNames == DOMAIN CallValues

InitCall ==
    /\ sliders = SliderDefaults
    /\ cache = << >>
    /\ loadCalls = 0
    /\ loadOk = 0
    /\ firstLoaded = << >>
    /\ run = NoRun
    /\ args \in [ soc_end : CallValues.soc_end, energy_stress : CallValues.energy_stress,
                  c_rate : CallValues.c_rate, charging_rate : CallValues.charging_rate,
                  soc_diff : CallValues.soc_diff, battery_capacity : CallValues.battery_capacity,
                  temperature : CallValues.temperature, thermal_load : CallValues.thermal_load,
                  charging_duration : CallValues.charging_duration ]
    /\ result = << >>
    /\ dpc = "call"

Call ==
    /\ dpc = "call"
    /\ result' = Detect(args)
    /\ dpc' = "returned"
    /\ UNCHANGED << args, appVars >>

NextCall == Call

SpecCall == InitCall /\ [][NextCall]_vars


(***************************************************************************)
(* Properties                                                              *)
(***************************************************************************)

Index(name) == CHOOSE k \in 1..Len(Categories) : Categories[k] = name

Evaluated == run.detectCalls = 1

\* The values the sliders returned in the latest run.
Inputs == run.inputs[1]

\* C1: a direct call of detect_abuse_actions returns a category if and only
\* if the category's condition holds of the arguments: temperature > 45;
\* soc_end > 80 and charging_rate > 50; soc_end >= 95; charging_duration > 6;
\* charging_rate > battery_capacity; energy_stress > 3; c_rate > 0.8;
\* thermal_load > 300.
C1_TableIff ==
    dpc = "returned" =>
        /\ Member("High Temperature Charging", result) <=> args.temperature > 45
        /\ Member("Fast Charging at High SoC", result)
               <=> (args.soc_end > 80 /\ args.charging_rate > 50)
        /\ Member("Overcharging", result) <=> args.soc_end >= 95
        /\ Member("Overnight / Long Duration Charging", result) <=> args.charging_duration > 60
        /\ Member("High Power Charging on Low Capacity Battery", result)
               <=> args.charging_rate > args.battery_capacity
        /\ Member("High Energy Stress Charging", result) <=> args.energy_stress > 30
        /\ Member("Excessive C-Rate Charging", result) <=> args.c_rate > 80
        /\ Member("Thermal Stress Due to Long Charging", result) <=> args.thermal_load > 300

\* Boundary case: temperature 45 and soc_end 80 stay out, soc_end 95 would
\* come in; here temperature 45, soc_end 95, charging_rate 51.
C1_Witness ==
    /\ dpc = "returned"
    /\ args.temperature = 45 /\ args.soc_end = 95 /\ args.charging_rate = 51
    /\ Member("Overcharging", result)
    /\ Member("Fast Charging at High SoC", result)
    /\ ~Member("High Temperature Charging", result)

\* C2: the list detect_abuse_actions returns in an analysis is a subsequence
\* of the eight category names in table order (only those names, none twice,
\* in that order), and when the categories are displayed they are displayed
\* in that same order.
C2_Subsequence ==
    Evaluated =>
        /\ \A i \in 1..Len(run.abuse_actions) : run.abuse_actions[i] \in CategorySet
        /\ \A i, j \in 1..Len(run.abuse_actions) :
               i < j => Index(run.abuse_actions[i]) < Index(run.abuse_actions[j])
        /\ run.out.actions # << >> => run.out.actions = run.abuse_actions

C2_Witness ==
    /\ Evaluated
    /\ run.abuse_actions = Categories
    /\ run.out.actions = Categories

\* C3: every category an analysis detects has an entry in ACTION_SUGGESTIONS,
\* so the display loop skips none: as many suggestions are shown as
\* categories, the i-th being the entry of the i-th category.
C3_LookupTotal ==
    Evaluated =>
        /\ \A i \in 1..Len(run.abuse_actions) : run.abuse_actions[i] \in DOMAIN ACTION_SUGGESTIONS
        /\ Len(run.out.suggestions) = Len(run.out.actions)
        /\ \A i \in 1..Len(run.out.actions) :
               run.out.suggestions[i] = ACTION_SUGGESTIONS[run.out.actions[i]]

C3_Witness ==
    /\ Evaluated
    /\ Member("Overcharging", run.out.actions)
    /\ Len(run.out.actions) = 3
    /\ Len(run.out.suggestions) = 3

\* C4 as stated: in every analysis the detected categories and their
\* remediation strings are shown with the verdict, whatever the label.
C4_AlwaysDisplayed ==
    (run.trigger = "press" /\ run.abuse_actions # << >>) =>
        /\ run.out.verdict # << >>
        /\ run.out.actions = run.abuse_actions
        /\ Len(run.out.suggestions) = Len(run.abuse_actions)

\* C4 amended: every analysis shows the verdict and its confidence; the
\* detected categories and their remediation strings are shown exactly when
\* the classifier predicts label 1, and with any other label none of them is
\* shown, however many were detected.
C4_DisplayedWhenAbusive ==
    run.trigger = "press" =>
        /\ run.out.verdict # << >>
        /\ run.pred = << 1 >> =>
               /\ run.out.verdict[1].label = "ABUSIVE"
               /\ run.out.actions = run.abuse_actions
               /\ Len(run.out.suggestions) = Len(run.abuse_actions)
        /\ run.pred # << 1 >> =>
               /\ run.out.verdict[1].label = "NORMAL"
               /\ run.out.actions = << >>
               /\ run.out.suggestions = << >>

C4_Witness ==
    /\ run.trigger = "press"
    /\ run.pred = << 0 >>
    /\ Len(run.abuse_actions) = 2
    /\ run.out.actions = << >>
    /\ run.out.verdict # << >>

\* C5: whatever order features.pkl lists the ten names in, the value under
\* each column name of input_df is the slider value of that same feature.
C5_ValueUnderOwnName ==
    run.input_df # << >> =>
        \A i \in 1..Len(run.input_df[1]) :
            run.input_df[1][i][2] = Inputs[run.input_df[1][i][1]]

\* C6: the body of load_artifacts returns at most once in a process and is
\* not executed again afterwards; every run that gets past the load uses the
\* triple the first successful load returned, and the cached triple stays
\* that one.
C6_LoadedOnce ==
    /\ [](/\ loadOk <= 1
          /\ run.arts # << >> => run.arts = firstLoaded
          /\ cache # << >> => cache = firstLoaded
          /\ loadOk = 1 <=> firstLoaded # << >>)
    /\ [][loadOk = 1 => (loadCalls' = loadCalls /\ cache' = cache)]_vars

C6_Witness ==
    /\ run.trigger = "press"
    /\ loadCalls = 2
    /\ loadOk = 1
    /\ run.arts = firstLoaded
    /\ firstLoaded # << >>

\* C7 as stated: once a load has failed the load is not retried, and no
\* slider, classifier call or rule evaluation follows in the process.
C7_FatalForProcess ==
    [][run.loadFailed =>
           /\ loadCalls' = loadCalls
           /\ ~run'.slidersShown
           /\ run'.predictCalls = 0
           /\ run'.detectCalls = 0]_vars

\* C7 amended: a failed load aborts the run of the script in which it
\* happens: that run presents no slider, calls neither the classifier nor
\* the rule function and writes no output.  The failure is not cached: the
\* next run of the script executes the body of load_artifacts again.
C7_FatalForRun ==
    /\ [](run.loadFailed =>
              /\ ~run.slidersShown
              /\ run.arts = << >>
              /\ run.predictCalls = 0
              /\ run.detectCalls = 0
              /\ run.out = NoOutput
              /\ cache = << >>)
    /\ [][run.loadFailed => loadCalls' = loadCalls + 1]_vars

C7_Witness ==
    /\ run.loadFailed
    /\ run.trigger = "rerun"
    /\ loadCalls = 2
    /\ ~run.slidersShown

\* C8: an analysis with every slider at its default detects nothing, and in
\* general the detected list is empty whenever none of the eight conditions
\* holds of the slider values.
C8_DefaultsEmpty ==
    Evaluated =>
        /\ Inputs = SliderDefaults => run.abuse_actions = << >>
        /\ ( /\ ~(Inputs.temperature > 45)
             /\ ~(Inputs.soc_end > 80 /\ Inputs.charging_rate > 50)
             /\ ~(Inputs.soc_end >= 95)
             /\ ~(Inputs.charging_duration > 60)
             /\ ~(Inputs.charging_rate > Inputs.battery_capacity)
             /\ ~(Inputs.energy_stress > 30)
             /\ ~(Inputs.c_rate > 80)
             /\ ~(Inputs.thermal_load > 300) ) => run.abuse_actions = << >>

C8_Witness ==
    /\ Evaluated
    /\ sliders = SliderDefaults
    /\ Inputs = SliderDefaults
    /\ run.abuse_actions = << >>
    /\ run.out.verdict # << >>

\* Whether category c is in the result when argument j alone is changed to x.
MemberAfterChange(c, j, x) == Member(c, Detect([ args EXCEPT ![j] = x ]))

\* C9 as stated: every category has one argument that decides its
\* membership, changes of any other argument leaving it as it is.
C9_OneInputEach ==
    dpc = "returned" =>
        \A c \in CategorySet : \E k \in ArgNames :
            \A j \in ArgNames \ {k} : \A x \in CallValues[j] :
                MemberAfterChange(c, j, x) <=> Member(c, result)

\* The argument(s) a category's condition reads.
Reads(c) ==
    CASE c = "High Temperature Charging" -> {"temperature"}
      [] c = "Fast Charging at High SoC" -> {"soc_end", "charging_rate"}
      [] c = "Overcharging" -> {"soc_end"}
      [] c = "Overnight / Long Duration Charging" -> {"charging_duration"}
      [] c = "High Power Charging on Low Capacity Battery" -> {"charging_rate", "battery_capacity"}
      [] c = "High Energy Stress Charging" -> {"energy_stress"}
      [] c = "Excessive C-Rate Charging" -> {"c_rate"}
      [] c = "Thermal Stress Due to Long Charging" -> {"thermal_load"}

\* C9 amended: six categories are each decided by one argument compared with
\* a constant (temperature, soc_end for Overcharging, charging_duration,
\* energy_stress, c_rate, thermal_load); Fast Charging at High SoC is decided
\* by two arguments, soc_end and charging_rate, each compared with a
\* constant, and High Power Charging on Low Capacity Battery by two
\* arguments compared with each other, charging_rate and battery_capacity.
\* Changing an argument a category does not read never changes its
\* membership.
C9_ReadsOnly ==
    dpc = "returned" =>
        \A c \in CategorySet :
            \A j \in ArgNames \ Reads(c) : \A x \in CallValues[j] :
                MemberAfterChange(c, j, x) <=> Member(c, result)

\* Both arguments of Fast Charging at High SoC matter: from soc_end 81 and
\* charging_rate 51, lowering either one alone removes the category, while
\* raising the temperature does not.
C9_Witness ==
    /\ dpc = "returned"
    /\ args.soc_end = 81 /\ args.charging_rate = 51 /\ args.temperature = 25
    /\ Member("Fast Charging at High SoC", result)
    /\ ~MemberAfterChange("Fast Charging at High SoC", "soc_end", 80)
    /\ ~MemberAfterChange("Fast Charging at High SoC", "charging_rate", 50)
    /\ MemberAfterChange("Fast Charging at High SoC", "temperature", 46)

\* C10: a run caused by a press of the button calls the classifier and the
\* rule function once each, on the slider values of that run, and shows the
\* verdict; a run caused by anything else calls neither and shows nothing, so
\* a verdict on screen always belongs to the slider values on screen.
C10_VerdictPerPress ==
    /\ run.trigger = "press" =>
           /\ run.predictCalls = 1 /\ run.detectCalls = 1
           /\ run.out.verdict # << >>
           /\ Inputs = sliders
           /\ run.abuse_actions = Detect(sliders)
           /\ \A i \in 1..Len(FeatureOrder) : run.input_df[1][i][2] = Row(sliders)[i]
    /\ run.trigger # "press" =>
           /\ run.predictCalls = 0 /\ run.detectCalls = 0
           /\ run.input_df = << >>
           /\ run.out = NoOutput
    /\ run.out.verdict # << >> => (run.trigger = "press" /\ Inputs = sliders)

C10_Witness ==
    /\ run.trigger = "move"
    /\ sliders.temperature = 46
    /\ run.slidersShown
    /\ run.out = NoOutput
    /\ run.predictCalls = 0

====
